---- MODULE Spec2Model ----
(***************************************************************************)
(* amas: the viewport / selection controller of the workspace layout       *)
(* (view_state.rs, selection_state.rs, canva_state.rs, draw.rs, view.rs),  *)
(* the editor it opens files in (editor.rs) and the force-directed layout  *)
(* (calculate_positions.rs) whose positions the draw turns into screen     *)
(* boxes.                                                                  *)
(*                                                                         *)
(* f64 values of the view state are modelled as exact rationals            *)
(* [n |-> numerator, d |-> denominator > 0] in lowest terms, so that the   *)
(* algebra of pan and zoom is computed as the code computes it, without    *)
(* the rounding of the last bit.  The layout works in fixed point,         *)
(* PosScale steps per logical unit.                                        *)
(***************************************************************************)
EXTENDS Integers, Sequences, FiniteSets, TLC

----------------------------------------------------------------------------
(* Rational arithmetic standing for f64 arithmetic.                        *)

Abs(i) == IF i < 0 THEN -i ELSE i

RECURSIVE Gcd(_, _)
Gcd(a, b) == IF b = 0 THEN a ELSE Gcd(b, a % b)

Norm(n, d) ==
    LET s == IF d < 0 THEN -1 ELSE 1
        g == Gcd(Abs(n), Abs(d))
    IN  [n |-> (s * n) \div g, d |-> (s * d) \div g]

R(i) == [n |-> i, d |-> 1]

Frac(n, d) == Norm(n, d)

(* sums and comparisons work over the least common denominator and       *)
(* products cancel common factors first, to keep the integers small       *)
RAdd(a, b) ==
    LET g == Gcd(a.d, b.d)
    IN  Norm(a.n * (b.d \div g) + b.n * (a.d \div g), (a.d \div g) * b.d)

RSub(a, b) == RAdd(a, [n |-> -b.n, d |-> b.d])

RMul(a, b) ==
    LET g1 == Gcd(Abs(a.n), b.d)
        g2 == Gcd(Abs(b.n), a.d)
    IN  IF a.n = 0 \/ b.n = 0
        THEN [n |-> 0, d |-> 1]
        ELSE [n |-> (a.n \div g1) * (b.n \div g2), d |-> (a.d \div g2) * (b.d \div g1)]

RDiv(a, b) ==
    IF b.n < 0
    THEN RMul(a, [n |-> -b.d, d |-> -b.n])
    ELSE RMul(a, [n |-> b.d, d |-> b.n])

RLe(a, b) ==
    LET g == Gcd(a.d, b.d)
    IN  a.n * (b.d \div g) <= b.n * (a.d \div g)

RLt(a, b) ==
    LET g == Gcd(a.d, b.d)
    IN  a.n * (b.d \div g) < b.n * (a.d \div g)

RMax(a, b) == IF RLe(a, b) THEN b ELSE a

RMin(a, b) == IF RLe(a, b) THEN a ELSE b

(* f64::clamp(min, max) *)
Clamp(v, lo, hi) == RMin(RMax(v, lo), hi)

----------------------------------------------------------------------------
(* Program constants.                                                      *)

ZoomMin == Frac(1, 10)

ZoomMax == Frac(3, 1)

(* the zoom level the pinch handler compares with before opening a file *)
PinchOpenZoom == Frac(7, 2)

(* side of a node's square at zoom 1 *)
NodeSize == 40

None == "<none>"

----------------------------------------------------------------------------
(* The workspace graph: nodes is the sequence of file names in NodeIndex   *)
(* order (NodeIndex i is position i), edges the sequence of endpoint pairs *)
(* in insertion order (duplicates and self loops allowed).                 *)

EmptyGraph == [nodes |-> << >>, edges |-> << >>]

add_file(g, name) == [g EXCEPT !.nodes = Append(@, name)]

add_import(g, a, b) == [g EXCEPT !.edges = Append(@, <<a, b>>)]

node_count(g) == Len(g.nodes)

node_indices(g) == 1..Len(g.nodes)

----------------------------------------------------------------------------
(* Force-directed layout, in fixed point.  A coordinate, a distance or a   *)
(* force is an integer number of 1/PosScale logical units; the temperature *)
(* is kept in 1/TempScale units so that 100 coolings do not round it to 0. *)

Width == 800

Height == 600

Iterations == 100

PosScale == 10

TempScale == 1000

(* resolution of the components of a unit vector *)
UnitScale == 10000

(* cooling_factor = 0.95, as CoolingNum / CoolingDen *)
CoolingNum == 95

CoolingDen == 100

(* division rounding toward zero, so that -a / b = -(a / b) as in f64 *)
Quot(a, b) == IF a < 0 THEN -((-a) \div b) ELSE a \div b

IMax(a, b) == IF a >= b THEN a ELSE b

IMin(a, b) == IF a <= b THEN a ELSE b

RECURSIVE SqrtIter(_, _)
SqrtIter(n, x) ==
    LET y == (x + n \div x) \div 2
    IN  IF y >= x THEN x ELSE SqrtIter(n, y)

(* f64::sqrt, rounded down to a whole step (Newton's iteration from above) *)
ISqrt(n) ==
    IF n < 2 THEN n
    ELSE IF n < 100 THEN SqrtIter(n, 10)
    ELSE IF n < 10000 THEN SqrtIter(n, 100)
    ELSE IF n < 1000000 THEN SqrtIter(n, 1000)
    ELSE IF n < 100000000 THEN SqrtIter(n, 10000)
    ELSE SqrtIter(n, 46340)

(* sqrt(dx^2 + dy^2); large operands are scaled down before squaring *)
Hypot(dx, dy) ==
    LET f == IMax(Abs(dx), Abs(dy)) \div 30000 + 1
        a == Quot(dx, f)
        b == Quot(dy, f)
    IN  f * ISqrt(a * a + b * b)

(* Position::distance *)
distance(p, q) == Hypot(p.x - q.x, p.y - q.y)

(* cos and sin of (i / total) * TAU in thousandths, for i in 0..total-1 *)
CosMilli(i, total) ==
    CASE total = 1 -> 1000
      [] total = 2 -> <<1000, -1000>>[i + 1]
      [] total = 3 -> <<1000, -500, -500>>[i + 1]
      [] total = 4 -> <<1000, 0, -1000, 0>>[i + 1]
      [] total = 5 -> <<1000, 309, -809, -809, 309>>[i + 1]
      [] total = 6 -> <<1000, 500, -500, -1000, -500, 500>>[i + 1]

SinMilli(i, total) ==
    CASE total = 1 -> 0
      [] total = 2 -> <<0, 0>>[i + 1]
      [] total = 3 -> <<0, 866, -866>>[i + 1]
      [] total = 4 -> <<0, 1000, 0, -1000>>[i + 1]
      [] total = 5 -> <<0, 951, 588, -588, -951>>[i + 1]
      [] total = 6 -> <<0, 866, 866, 0, -866, -866>>[i + 1]

(* f64 infinity: what area / total is for a total of 0 *)
Infinity == 2147483647

(* ForceDirectedLayout::new; iterations_done is history: the number of     *)
(* calls of iterate on the layout                                          *)
NewLayout(g, width, height) ==
    LET center_x == (width * PosScale) \div 2
        center_y == (height * PosScale) \div 2
        radius   == (IMin(width, height) * PosScale * 2) \div 5
        total    == node_count(g)
    IN  [positions |->
            [i \in node_indices(g) |->
                [x |-> center_x + Quot(radius * CosMilli(i - 1, total), 1000),
                 y |-> center_y + Quot(radius * SinMilli(i - 1, total), 1000)]],
         width  |-> width * PosScale,
         height |-> height * PosScale,
         k      |-> IF total = 0
                    THEN Infinity
                    ELSE ISqrt(((width * height) \div total) * PosScale * PosScale),
         temperature |-> (width * TempScale) \div 10,
         iterations_done |-> 0]

(* calculate_repulsive_force: k^2 / distance, 1000 at distance 0 *)
calculate_repulsive_force(l, d) ==
    IF d = 0 THEN 1000 * PosScale ELSE (l.k * l.k) \div d

(* calculate_attractive_force: distance^2 / k *)
calculate_attractive_force(l, d) == (d * d) \div l.k

Vec(x, y) == [x |-> x, y |-> y]

VAdd(a, b) == [x |-> a.x + b.x, y |-> a.y + b.y]

RECURSIVE SumVec(_, _, _)
(* the sum of f[i] for i in lo..hi *)
SumVec(f, lo, hi) == IF lo > hi THEN Vec(0, 0) ELSE VAdd(f[lo], SumVec(f, lo + 1, hi))

(* repulsion received by node a from the pair (a, b) *)
RepulsionPair(l, a, b) ==
    LET pa == l.positions[a]
        pb == l.positions[b]
        d  == distance(pa, pb)
    IN  IF a # b /\ d > 0
        THEN LET force == calculate_repulsive_force(l, d)
             IN  Vec(Quot((pa.x - pb.x) * force, d), Quot((pa.y - pb.y) * force, d))
        ELSE Vec(0, 0)

(* attraction received by node a from edge e = <<node_u, node_v>> *)
AttractionEdge(l, a, e) ==
    LET pos_u == l.positions[e[1]]
        pos_v == l.positions[e[2]]
        d     == distance(pos_u, pos_v)
    IN  IF d > 0 /\ a \in {e[1], e[2]}
        THEN LET force == calculate_attractive_force(l, d)
                 fx == Quot((pos_v.x - pos_u.x) * force, d)
                 fy == Quot((pos_v.y - pos_u.y) * force, d)
             IN  IF a = e[1] THEN Vec(fx, fy) ELSE Vec(-fx, -fy)
        ELSE Vec(0, 0)

(* gravity toward the centre and the spring keeping nodes on the circle *)
CenterForce(l, a) ==
    LET pos == l.positions[a]
        center_x == l.width \div 2
        center_y == l.height \div 2
        ideal_radius == (IMin(l.width, l.height) * 2) \div 5
        dx == center_x - pos.x
        dy == center_y - pos.y
        (* gravity_strength = k * 0.02, k in logical units *)
        gravity == Vec(Quot(dx * l.k * 2, 100 * PosScale), Quot(dy * l.k * 2, 100 * PosScale))
        dist == Hypot(pos.x - center_x, pos.y - center_y)
        diff == dist - ideal_radius
        spring == IF dist > 0
                  THEN Vec(-Quot((pos.x - center_x) * diff, dist * 100),
                           -Quot((pos.y - center_y) * diff, dist * 100))
                  ELSE Vec(0, 0)
    IN  VAdd(gravity, spring)

(* the displacement accumulated for node a in one iteration *)
Displacement(l, g, a) ==
    LET n == node_count(g)
        rep == SumVec([b \in 1..n |-> RepulsionPair(l, a, b)], 1, n)
        att == SumVec([j \in 1..Len(g.edges) |-> AttractionEdge(l, a, g.edges[j])],
                      1, Len(g.edges))
    IN  VAdd(VAdd(rep, att), CenterForce(l, a))

(* a move by the whole displacement, whatever the temperature *)
LimitedMoveFull(disp, temperature) == disp

(* the move of one node: the displacement limited to the temperature *)
LimitedMove(disp, temperature) ==
    LET f   == IMax(Abs(disp.x), Abs(disp.y)) \div 30000 + 1
        sx  == Quot(disp.x, f)
        sy  == Quot(disp.y, f)
        len == ISqrt(sx * sx + sy * sy)
        displacement_length == f * len
        (* min(displacement_length, temperature), in 1/TempScale units *)
        limited == IF displacement_length * (TempScale \div PosScale) <= temperature
                   THEN displacement_length * (TempScale \div PosScale)
                   ELSE temperature
    IN  IF displacement_length > 0 /\ len > 0
        THEN Vec(Quot(Quot(sx * UnitScale, len) * limited, UnitScale * (TempScale \div PosScale)),
                 Quot(Quot(sy * UnitScale, len) * limited, UnitScale * (TempScale \div PosScale)))
        ELSE Vec(0, 0)

(* the position of node a after the integration step of one iteration *)
Integrate(l, g, a) ==
    LET disp == Displacement(l, g, a)
        mv   == LimitedMove(disp, l.temperature)
        pos  == l.positions[a]
    IN  IF disp.x = 0 /\ disp.y = 0
        THEN pos
        ELSE [x |-> IMin(IMax(pos.x + mv.x, 0), l.width),
              y |-> IMin(IMax(pos.y + mv.y, 0), l.height)]

RECURSIVE MovedPositions(_, _, _)
(* the positions of the nodes 1..n after the integration step *)
MovedPositions(l, g, n) ==
    IF n = 0 THEN << >> ELSE Append(MovedPositions(l, g, n - 1), Integrate(l, g, n))

(* ForceDirectedLayout::iterate *)
iterate(l, g) ==
    [l EXCEPT !.positions = MovedPositions(l, g, node_count(g)),
              !.temperature = (@ * CoolingNum) \div CoolingDen,
              !.iterations_done = @ + 1]

RECURSIVE run(_, _, _)
(* ForceDirectedLayout::run: iterate, iterations times in a row (the run   *)
(* is split in two halves to keep the evaluation shallow)                  *)
run(l, g, iterations) ==
    IF iterations = 0 THEN l
    ELSE IF iterations = 1 THEN iterate(l, g)
    ELSE LET half == iterations \div 2
             mid  == run(l, g, half)
         IN  (* the first half is completed before the second half starts *)
             IF mid.temperature >= 0
             THEN run(mid, g, iterations - half)
             ELSE mid

RECURSIVE PushPositions(_, _, _)
(* the result list after the nodes 1..n have been pushed *)
PushPositions(g, layout, n) ==
    IF n = 0
    THEN << >>
    ELSE Append(PushPositions(g, layout, n - 1),
                [file |-> g.nodes[n], position |-> layout.positions[n]])

(* a calculate_positions without the early return for the empty graph *)
CalculatePositionsUnguarded(g) ==
    LET layout == run(NewLayout(g, Width, Height), g, Iterations)
    IN  [result     |-> PushPositions(g, layout, node_count(g)),
         layouts    |-> 1,
         iterations |-> layout.iterations_done]

(* WorkspaceLayout::calculate_positions: result is the (file, position)    *)
(* list returned; layouts and iterations are history: the number of        *)
(* ForceDirectedLayout::new calls (each divides by the node count) and of  *)
(* iterate calls made for it                                               *)
calculate_positions(g) ==
    IF node_count(g) = 0
    THEN [result |-> << >>, layouts |-> 0, iterations |-> 0]
    ELSE LET layout == run(NewLayout(g, Width, Height), g, Iterations)
         IN  [result     |-> PushPositions(g, layout, node_count(g)),
              layouts    |-> 1,
              iterations |-> layout.iterations_done]

(* the displacements map as the force loops of one iteration leave it *)
Displacements(l, g) == [a \in node_indices(g) |-> Displacement(l, g, a)]

(* the body of the integration loop without the two clamps of the position *)
MoveNodeUnclamped(l, a, disp) ==
    LET mv == LimitedMove(disp, l.temperature)
    IN  IF disp.x = 0 /\ disp.y = 0
        THEN l
        ELSE [l EXCEPT !.positions[a] = VAdd(@, mv)]

(* the body of the integration loop for the entry (a, disp) of the map:    *)
(* nothing is done, not even the clamp, for a displacement of length 0     *)
MoveNode(l, a, disp) ==
    LET mv == LimitedMove(disp, l.temperature)
    IN  IF disp.x = 0 /\ disp.y = 0
        THEN l
        ELSE [l EXCEPT !.positions[a] =
                 [x |-> IMin(IMax(@.x + mv.x, 0), l.width),
                  y |-> IMin(IMax(@.y + mv.y, 0), l.height)]]

RECURSIVE IntegrateInOrder(_, _, _, _)
(* the layout after the first i entries of the map, visited in the given   *)
(* order, have been integrated                                             *)
IntegrateInOrder(l, disps, order, i) ==
    IF i = 0
    THEN l
    ELSE MoveNode(IntegrateInOrder(l, disps, order, i - 1), order[i], disps[order[i]])

RECURSIVE IntegrateRecomputing(_, _, _, _)
(* an integration that reads the forces from the positions already moved *)
IntegrateRecomputing(l, g, order, i) ==
    IF i = 0
    THEN l
    ELSE LET moved == IntegrateRecomputing(l, g, order, i - 1)
         IN  MoveNode(moved, order[i], Displacement(moved, g, order[i]))

(* an iterate without the displacements map: each node is moved by the     *)
(* forces of the positions as the nodes before it in the order left them   *)
IterateInPlace(l, g, order) ==
    [IntegrateRecomputing(l, g, order, Len(order)) EXCEPT
        !.temperature = (@ * CoolingNum) \div CoolingDen,
        !.iterations_done = @ + 1]

(* ForceDirectedLayout::iterate, the displacements map (a HashMap) being   *)
(* visited in the given order by the integration loop                      *)
iterate_in_order(l, g, order) ==
    [IntegrateInOrder(l, Displacements(l, g), order, Len(order)) EXCEPT
        !.temperature = (@ * CoolingNum) \div CoolingDen,
        !.iterations_done = @ + 1]

(* the orders in which a HashMap with the keys 1..n can be visited *)
Orders(n) == {order \in [1..n -> 1..n] : \A i, j \in 1..n : order[i] = order[j] => i = j}

----------------------------------------------------------------------------
(* Paths.  A file name is the sequence of its characters; a path is the    *)
(* sequence of its components (std::path::Component): RootDir first for an *)
(* absolute path, then CurDir, ParentDir or a name.  A path and the string *)
(* to_string_lossy gives for it determine each other, so the path stands   *)
(* for the string where the code keeps the string.                         *)

RootDir == <<"/">>

CurDir == <<".">>

ParentDir == <<".", ".">>

(* the position of the last '.' of a file name, 0 when it has none *)
LastDot(name) ==
    LET dots == {i \in 1..Len(name) : name[i] = "."}
    IN  IF dots = {} THEN 0 ELSE CHOOSE i \in dots : \A j \in dots : j <= i

(* Path::file_name: the last component when it is a name *)
HasFileName(path) ==
    /\ path # << >>
    /\ path[Len(path)] \notin {RootDir, CurDir, ParentDir}

(* Path::file_stem of a file name: the part before the last '.', the whole *)
(* name when it has no '.' or only a leading one                           *)
file_stem(name) ==
    IF LastDot(name) <= 1 THEN name ELSE SubSeq(name, 1, LastDot(name) - 1)

(* Path::extension of a file name: the part after the last '.', or the     *)
(* empty sequence (None) when it has no '.' or only a leading one          *)
extension(name) ==
    IF LastDot(name) <= 1 THEN << >> ELSE SubSeq(name, LastDot(name) + 1, Len(name))

(* Path::with_extension: the stem of the file name, a '.', the extension;  *)
(* a path without file name is returned as it is                           *)
with_extension(path, ext) ==
    IF ~HasFileName(path)
    THEN path
    ELSE [path EXCEPT ![Len(path)] = file_stem(@) \o <<".">> \o ext]

(* Path::join with a relative path *)
join(path, rel) == path \o rel

(* Path::parent *)
parent(path) ==
    IF path = << >> \/ path = <<RootDir>>
    THEN << >>
    ELSE SubSeq(path, 1, Len(path) - 1)

(* Path::components: a '.' that is not the first component is dropped *)
components(path) ==
    SelectSeq([i \in 1..Len(path) |-> IF i > 1 /\ path[i] = CurDir THEN << >> ELSE path[i]],
              LAMBDA c : c # << >>)

----------------------------------------------------------------------------
(* The filesystem the build reads: files is the set of absolute paths of   *)
(* the regular files, links the set of symbolic links <<path, target>>     *)
(* to files, source the content of each regular file.  The         *)
(* directories are the proper prefixes of these paths.                     *)

Entries(fs) == fs.files \cup {l[1] : l \in fs.links}

IsDir(fs, path) ==
    \/ path = <<RootDir>>
    \/ \E e \in Entries(fs) : Len(e) > Len(path) /\ SubSeq(e, 1, Len(path)) = path

(* the failure of canonicalize *)
NoPath == <<"<error>">>

RECURSIVE Realpath(_, _, _)
(* realpath of the components rest below the resolved directory cur *)
Realpath(fs, cur, rest) ==
    IF rest = << >>
    THEN cur
    ELSE LET c == Head(rest)
             next == cur \o <<c>>
         IN  IF c = CurDir THEN Realpath(fs, cur, Tail(rest))
             ELSE IF c = ParentDir
             THEN Realpath(fs, IF cur = <<RootDir>> THEN cur ELSE parent(cur), Tail(rest))
             ELSE IF IsDir(fs, next) THEN Realpath(fs, next, Tail(rest))
             ELSE IF Len(rest) > 1 THEN NoPath
             ELSE IF next \in fs.files THEN next
             ELSE IF \E l \in fs.links : l[1] = next
             THEN Realpath(fs, <<RootDir>>,
                           Tail((CHOOSE l \in fs.links : l[1] = next)[2]))
             ELSE NoPath

(* Path::canonicalize: the absolute path with '.', '..' and links          *)
(* resolved, NoPath (Err) when the path does not exist; a relative path    *)
(* is taken from the working directory of the process, here the root       *)
canonicalize(fs, path) ==
    Realpath(fs, <<RootDir>>,
             IF path # << >> /\ Head(path) = RootDir THEN Tail(path) ELSE path)

(* Path::exists *)
exists(fs, path) == canonicalize(fs, path) # NoPath

(* std::fs::FileType::is_file of a directory entry (a link is not followed) *)
is_file(fs, path) == path \in fs.files

----------------------------------------------------------------------------
(* typescript.rs: the resolver.  A specifier is the sequence of the        *)
(* segments of its string ("./b" is <<CurDir, b>>): the string starts with *)
(* '.' when the first character of its first segment is '.'.               *)

(* Option::None of resolve_import_path *)
Unresolved == <<"<unresolved>">>

(* the extensions probed, in the order of the two loops *)
Extensions == << <<"t", "s">>, <<"t", "s", "x">>, <<"j", "s">>, <<"j", "s", "x">> >>

Index == <<"i", "n", "d", "e", "x">>

(* import_path.starts_with('.') *)
StartsWithDot(import_path) ==
    /\ import_path # << >>
    /\ Head(import_path) # << >>
    /\ Head(Head(import_path)) = "."

RECURSIVE ManualResolve(_, _)
(* the component stack of manual_resolve_path after the components cs *)
ManualResolve(stack, cs) ==
    IF cs = << >>
    THEN stack
    ELSE LET c == Head(cs)
         IN  IF c = ParentDir
             THEN ManualResolve(IF stack = << >> THEN stack
                                ELSE SubSeq(stack, 1, Len(stack) - 1), Tail(cs))
             ELSE IF c = CurDir
             THEN ManualResolve(stack, Tail(cs))
             ELSE ManualResolve(Append(stack, c), Tail(cs))

(* ImportVisitor::manual_resolve_path *)
manual_resolve_path(path) == ManualResolve(<< >>, components(path))

(* the base the candidates are built from: the canonical path of the       *)
(* joined path, its manual resolution when canonicalize fails              *)
CanonicalBase(fs, current_file_dir, import_path) ==
    LET resolved == join(current_file_dir, import_path)
    IN  IF canonicalize(fs, resolved) # NoPath
        THEN canonicalize(fs, resolved)
        ELSE manual_resolve_path(resolved)

(* the paths of the first loop: the base with each extension *)
ExtensionCandidates(base) ==
    [i \in 1..Len(Extensions) |-> with_extension(base, Extensions[i])]

(* the paths of the second loop: the index file of each extension *)
IndexCandidates(base) ==
    [i \in 1..Len(Extensions) |-> join(base, <<Index \o <<".">> \o Extensions[i]>>)]

(* the first path of candidates that exists, Unresolved when none does *)
FirstExisting(fs, candidates) ==
    LET found == {i \in 1..Len(candidates) : exists(fs, candidates[i])}
    IN  IF found = {}
        THEN Unresolved
        ELSE candidates[CHOOSE i \in found : \A j \in found : i <= j]

(* a resolver without the test for a relative specifier *)
ResolveAnySpecifier(fs, current_file_dir, import_path) ==
    LET base == CanonicalBase(fs, current_file_dir, import_path)
    IN  FirstExisting(fs, ExtensionCandidates(base) \o IndexCandidates(base))

(* a resolver probing the index files before the files *)
ResolveIndexFirst(fs, current_file_dir, import_path) ==
    IF StartsWithDot(import_path)
    THEN LET base == CanonicalBase(fs, current_file_dir, import_path)
         IN  FirstExisting(fs, IndexCandidates(base) \o ExtensionCandidates(base))
    ELSE Unresolved

(* ImportVisitor::resolve_import_path *)
resolve_import_path(fs, current_file_dir, import_path) ==
    IF StartsWithDot(import_path)
    THEN LET base == CanonicalBase(fs, current_file_dir, import_path)
         IN  FirstExisting(fs, ExtensionCandidates(base) \o IndexCandidates(base))
    ELSE Unresolved

(* ImportVisitor::add_import: the strings pushed to imports for one specifier *)
add_import_path(fs, current_file_dir, import_path) ==
    LET resolved_path == resolve_import_path(fs, current_file_dir, import_path)
    IN  IF resolved_path = Unresolved
        THEN << >>
        ELSE IF canonicalize(fs, resolved_path) # NoPath
        THEN <<canonicalize(fs, resolved_path)>>
        ELSE <<resolved_path>>

----------------------------------------------------------------------------
(* typescript.rs: the visitor.  A program is the sequence of its           *)
(* statements, as the parser returns it; the nodes are those the visitor   *)
(* matches on.  Each visit gives the specifiers add_import is called       *)
(* with, in call order.                                                    *)

ImportDeclaration(source) == [kind |-> "ImportDeclaration", source |-> source]

ExportAllDeclaration(source) == [kind |-> "ExportAllDeclaration", source |-> source]

(* export { x } from "source";  has_source is FALSE for a local export *)
ExportNamedDeclaration(has_source, source) ==
    [kind |-> "ExportNamedDeclaration", has_source |-> has_source, source |-> source]

ExpressionStatement(expression) ==
    [kind |-> "ExpressionStatement", expression |-> expression]

Identifier(name) == [kind |-> "Identifier", name |-> name]

StringLiteral(value) == [kind |-> "StringLiteral", value |-> value]

CallExpression(callee, arguments) ==
    [kind |-> "CallExpression", callee |-> callee, arguments |-> arguments]

StaticMemberExpression(object, property) ==
    [kind |-> "StaticMemberExpression", object |-> object, property |-> property]

ComputedMemberExpression(object, expression) ==
    [kind |-> "ComputedMemberExpression", object |-> object, expression |-> expression]

(* import(source): an expression of its own, not a call *)
ImportExpression(source) == [kind |-> "ImportExpression", source |-> source]

(* the first argument when it is a string literal: its value as the one    *)
(* specifier, else nothing                                                 *)
FirstStringLiteral(arguments) ==
    IF arguments # << >> /\ arguments[1].kind = "StringLiteral"
    THEN <<arguments[1].value>>
    ELSE << >>

(* the require("...") test shared by both visits *)
RequireSpecifier(e) ==
    IF /\ e.kind = "CallExpression"
       /\ e.callee.kind = "Identifier"
       /\ e.callee.name = "require"
    THEN FirstStringLiteral(e.arguments)
    ELSE << >>

RECURSIVE visit_expression(_)
RECURSIVE visit_arguments(_)
RECURSIVE visit_call_expression(_)
RECURSIVE visit_member_expression(_)

(* Visit::visit_expression: dispatch on the kind; an import expression is  *)
(* walked by the default visit (its source), leaves add nothing            *)
visit_expression(e) ==
    IF e.kind = "CallExpression" THEN visit_call_expression(e)
    ELSE IF e.kind \in {"StaticMemberExpression", "ComputedMemberExpression"}
    THEN visit_member_expression(e)
    ELSE IF e.kind = "ImportExpression" THEN visit_expression(e.source)
    ELSE << >>

(* the loop over the arguments at the end of visit_call_expression *)
visit_arguments(arguments) ==
    IF arguments = << >>
    THEN << >>
    ELSE visit_expression(Head(arguments)) \o visit_arguments(Tail(arguments))

(* ImportVisitor::visit_call_expression *)
visit_call_expression(e) ==
    (IF e.callee.kind = "ImportExpression" THEN FirstStringLiteral(e.arguments) ELSE << >>)
    \o RequireSpecifier(e)
    \o visit_expression(e.callee)
    \o visit_arguments(e.arguments)

(* ImportVisitor::visit_member_expression *)
visit_member_expression(e) ==
    (IF e.kind = "StaticMemberExpression" THEN RequireSpecifier(e.object) ELSE << >>)
    \o visit_expression(e.object)
    \o (IF e.kind = "ComputedMemberExpression"
        THEN visit_expression(e.expression)
        ELSE << >>)

(* the visit of one statement of the program *)
visit_statement(s) ==
    IF s.kind \in {"ImportDeclaration", "ExportAllDeclaration"} THEN <<s.source>>
    ELSE IF s.kind = "ExportNamedDeclaration"
    THEN (IF s.has_source THEN <<s.source>> ELSE << >>)
    ELSE visit_expression(s.expression)

RECURSIVE visit_program(_)
(* Visit::visit_program: the statements in order *)
visit_program(program) ==
    IF program = << >>
    THEN << >>
    ELSE visit_statement(Head(program)) \o visit_program(Tail(program))

RECURSIVE AddImports(_, _, _)
(* visitor.imports after add_import of each specifier in order *)
AddImports(fs, current_file_dir, specifiers) ==
    IF specifiers = << >>
    THEN << >>
    ELSE add_import_path(fs, current_file_dir, Head(specifiers))
         \o AddImports(fs, current_file_dir, Tail(specifiers))

(* fs::read_to_string fails: the file is gone or unreadable *)
ReadFails(fs, file_path) ==
    \/ canonicalize(fs, file_path) = NoPath
    \/ canonicalize(fs, file_path) \notin fs.files
    \/ ~fs.source[canonicalize(fs, file_path)].readable

(* what the parser returns for the file: errors and program *)
Parsed(fs, file_path) == fs.source[canonicalize(fs, file_path)]

(* a parse that returns no import for a file with syntax errors *)
ParseDroppingErrors(fs, file_path) ==
    IF ReadFails(fs, file_path)
    THEN [ok |-> FALSE, imports |-> << >>]
    ELSE IF Parsed(fs, file_path).errors
    THEN [ok |-> TRUE, imports |-> << >>]
    ELSE [ok |-> TRUE,
          imports |-> AddImports(fs, parent(file_path),
                                 visit_program(Parsed(fs, file_path).program))]

(* parse_typescript_file: Err, or Ok with the imports of the program *)
parse_typescript_file(fs, file_path) ==
    IF ReadFails(fs, file_path)
    THEN [ok |-> FALSE, imports |-> << >>]
    ELSE [ok |-> TRUE,
          imports |-> AddImports(fs, parent(file_path),
                                 visit_program(Parsed(fs, file_path).program))]

----------------------------------------------------------------------------
(* typescript.rs: discovery and the two passes of the build.               *)

Ts == <<"t", "s">>

Tsx == <<"t", "s", "x">>

Js == <<"j", "s">>

Jsx == <<"j", "s", "x">>

(* the extensions find_typescript_files keeps *)
SourceExtensions == {Ts, Tsx, Js, Jsx, <<"m", "j", "s">>, <<"c", "j", "s">>}

Dist == <<"d", "i", "s", "t">>

(* the directory names find_typescript_files skips *)
IgnoredDirs ==
    {<<"n", "o", "d", "e", "_", "m", "o", "d", "u", "l", "e", "s">>,
     <<".", "g", "i", "t">>,
     Dist,
     <<"b", "u", "i", "l", "d">>,
     <<"c", "o", "v", "e", "r", "a", "g", "e">>}

(* the file name stem.ext *)
FileName(stem, ext) == stem \o <<".">> \o ext

(* the project directory /p and the paths below it *)
ProjectPath == <<RootDir, <<"p">>>>

InProject(rel) == join(ProjectPath, rel)

PathA == InProject(<<FileName(<<"a">>, Ts)>>)

PathB == InProject(<<FileName(<<"b">>, Ts)>>)

PathC == InProject(<<FileName(<<"c">>, Ts)>>)

PathD == InProject(<<FileName(<<"d">>, Ts)>>)

PathE == InProject(<<FileName(<<"e">>, Ts)>>)

PathDistB == InProject(<<Dist, FileName(<<"b">>, Ts)>>)

(* the eight paths the resolver probes for "./b" from /p/a.ts, in order *)
ProbedPaths ==
    << InProject(<<FileName(<<"b">>, Ts)>>),  InProject(<<FileName(<<"b">>, Tsx)>>),
       InProject(<<FileName(<<"b">>, Js)>>),  InProject(<<FileName(<<"b">>, Jsx)>>),
       InProject(<<<<"b">>, FileName(Index, Ts)>>),
       InProject(<<<<"b">>, FileName(Index, Tsx)>>),
       InProject(<<<<"b">>, FileName(Index, Js)>>),
       InProject(<<<<"b">>, FileName(Index, Jsx)>>) >>

(* every path of the inputs, in the order the directory walk yields them *)
WalkOrder == <<PathA>> \o ProbedPaths \o <<PathC, PathD, PathE, PathDistB>>

(* WalkDir::new(project_path).into_iter(): the entries below the project *)
WalkDir(fs, project_path) ==
    SelectSeq(WalkOrder,
              LAMBDA p : /\ p \in Entries(fs)
                         /\ Len(p) > Len(project_path)
                         /\ SubSeq(p, 1, Len(project_path)) = project_path)

(* find_typescript_files: the regular files with a source extension and    *)
(* no ignored directory among the components of their path                 *)
find_typescript_files(fs, project_path) ==
    SelectSeq(WalkDir(fs, project_path),
              LAMBDA p : /\ is_file(fs, p)
                         /\ extension(p[Len(p)]) \in SourceExtensions
                         /\ \A i \in 1..Len(p) : p[i] \notin IgnoredDirs)

(* file_path.canonicalize().unwrap_or_else(|_| file_path.clone()) *)
CanonicalOr(fs, file_path) ==
    IF canonicalize(fs, file_path) # NoPath
    THEN canonicalize(fs, file_path)
    ELSE file_path

(* the body of the first loop for one file: a node, and its map entry *)
Pass1Graph(g, fs, file_path) == add_file(g, CanonicalOr(fs, file_path))

(* the map entry of the first loop for one file: the index add_file        *)
(* returns, replacing the entry the path has (HashMap::insert)             *)
Pass1Map(map, g, fs, file_path) ==
    (CanonicalOr(fs, file_path) :> (node_count(g) + 1)) @@ map

RECURSIVE Pass2EdgesNoSelf(_, _, _, _)
(* a second pass that skips the import of the file by itself *)
Pass2EdgesNoSelf(g, map, current_node, imports) ==
    IF imports = << >>
    THEN g
    ELSE Pass2EdgesNoSelf(
             IF Head(imports) \in DOMAIN map /\ map[Head(imports)] # current_node
             THEN add_import(g, current_node, map[Head(imports)])
             ELSE g,
             map, current_node, Tail(imports))

RECURSIVE Pass2EdgesOncePerTarget(_, _, _, _)
(* a second pass that adds no second edge between two nodes *)
Pass2EdgesOncePerTarget(g, map, current_node, imports) ==
    IF imports = << >>
    THEN g
    ELSE Pass2EdgesOncePerTarget(
             IF /\ Head(imports) \in DOMAIN map
                /\ \A k \in 1..Len(g.edges) :
                      g.edges[k][2] # map[Head(imports)]
             THEN add_import(g, current_node, map[Head(imports)])
             ELSE g,
             map, current_node, Tail(imports))

RECURSIVE Pass2Edges(_, _, _, _)
(* the inner loop of the second pass: an edge for each import in the map *)
Pass2Edges(g, map, current_node, imports) ==
    IF imports = << >>
    THEN g
    ELSE Pass2Edges(
             IF Head(imports) \in DOMAIN map
             THEN add_import(g, current_node, map[Head(imports)])
             ELSE g,
             map, current_node, Tail(imports))

(* the body of the second loop for one file *)
Pass2Graph(g, map, fs, file_path) ==
    LET parsed == parse_typescript_file(fs, file_path)
        file_path_str == CanonicalOr(fs, file_path)
    IN  IF parsed.ok /\ file_path_str \in DOMAIN map
        THEN Pass2Edges(g, map, map[file_path_str], parsed.imports)
        ELSE g

----------------------------------------------------------------------------
(* The projects the build is run on.                                       *)

(* what the parser gives for a file: readable is FALSE when reading the    *)
(* file fails, errors is TRUE when the parse reports syntax errors; the    *)
(* program is kept when the parser recovers and is empty when it gives up  *)
Source(readable, errors, program) ==
    [readable |-> readable, errors |-> errors, program |-> program]

EmptySource == Source(TRUE, FALSE, << >>)

(* "./b" *)
SpecB == <<CurDir, <<"b">>>>

(* "./a" *)
SpecA == <<CurDir, <<"a">>>>

(* "./c", "./d", "./e" *)
SpecC == <<CurDir, <<"c">>>>

SpecD == <<CurDir, <<"d">>>>

SpecE == <<CurDir, <<"e">>>>

(* "b": a bare specifier naming a file that may exist *)
SpecBareB == << <<"b">> >>

(* "lodash" *)
SpecLodash == << <<"l", "o", "d", "a", "s", "h">> >>

(* "../p/b.css": a parent segment and an extension to replace *)
SpecUpCss == <<ParentDir, <<"p">>, FileName(<<"b">>, <<"c", "s", "s">>)>>

(* "./dist/b": a file of the project outside the discovered files *)
SpecDistB == <<CurDir, Dist, <<"b">>>>

(* "./z": no such file *)
SpecMissing == <<CurDir, <<"z">>>>

Require(specifier) == CallExpression(Identifier("require"), <<StringLiteral(specifier)>>)

(* the programs of /p/a.ts, one per way of importing *)
KindPrograms ==
    { <<ImportDeclaration(SpecB)>>,
      <<ExportAllDeclaration(SpecB), ExportNamedDeclaration(TRUE, SpecB),
        ExportNamedDeclaration(FALSE, << >>)>>,
      <<ExpressionStatement(Require(SpecB))>>,
      <<ExpressionStatement(StaticMemberExpression(Require(SpecB), "default"))>>,
      <<ExpressionStatement(ImportExpression(StringLiteral(SpecB)))>>,
      <<ExpressionStatement(ImportExpression(Identifier("name")))>>,
      <<ExpressionStatement(CallExpression(Identifier("load"), <<Require(SpecB)>>))>>,
      <<ExpressionStatement(CallExpression(Identifier("require"), <<Identifier("name")>>))>>,
      <<ImportDeclaration(SpecA), ImportDeclaration(SpecB)>>,
      <<ImportDeclaration(SpecDistB), ImportDeclaration(SpecMissing),
        ImportDeclaration(SpecLodash)>> }

(* the sources of /p/a.ts: each program read and parsed without error, or  *)
(* unreadable, or parsed with errors the parser recovers from or not       *)
KindSources ==
    {Source(TRUE, FALSE, program) : program \in KindPrograms}
    \cup {Source(FALSE, FALSE, << >>),
          Source(TRUE, TRUE, << >>),
          Source(TRUE, TRUE, <<ImportDeclaration(SpecB)>>)}

(* /p/a.ts with each source, /p/b.ts importing "./a", /p/dist/b.ts *)
KindProjects ==
    {[files  |-> {PathA, PathB, PathDistB},
      links  |-> {},
      source |-> (PathA :> s) @@ (PathB :> Source(TRUE, FALSE, <<ImportDeclaration(SpecA)>>))
                 @@ (PathDistB :> EmptySource)] : s \in KindSources}

(* /p/a.ts importing one specifier, with any of the eight probed paths *)
ProbeProjects ==
    {[files  |-> {PathA} \cup {ProbedPaths[i] : i \in present},
      links  |-> {},
      source |-> [p \in {PathA} \cup {ProbedPaths[i] : i \in present} |->
                     IF p = PathA
                     THEN Source(TRUE, FALSE, <<ImportDeclaration(specifier)>>)
                     ELSE EmptySource]] :
        present \in SUBSET (1..Len(ProbedPaths)),
        specifier \in {SpecB, SpecBareB, SpecUpCss}}

(* five files with the imports a->b, b->c, b->d, a->e, b->e *)
Project5 ==
    [files  |-> {PathA, PathB, PathC, PathD, PathE},
     links  |-> {},
     source |-> (PathA :> Source(TRUE, FALSE,
                     <<ImportDeclaration(SpecB), ExportAllDeclaration(SpecE)>>))
                @@ (PathB :> Source(TRUE, FALSE,
                     <<ImportDeclaration(SpecC), ExpressionStatement(Require(SpecD)),
                       ExportNamedDeclaration(TRUE, SpecE)>>))
                @@ (PathC :> EmptySource) @@ (PathD :> EmptySource)
                @@ (PathE :> EmptySource)]

Projects == KindProjects \cup ProbeProjects \cup {Project5}

(* the filesystem before any project is read *)
NoProject == [files |-> {}, links |-> {}, source |-> << >>]

----------------------------------------------------------------------------
(* Bounds and inputs of the model.                                         *)

(* number of events and redraws of a run *)
MaxSteps == 5

FileA == "/proj/a.ts"

FileB == "/proj/b.ts"

FileC == "/proj/c.ts"

(* three files, a importing b and c *)
Graph3 ==
    add_import(add_import(
        add_file(add_file(add_file(EmptyGraph, FileA), FileB), FileC), 1, 2), 1, 3)

(* the graphs a workspace layout is constructed with *)
SampleGraphs == {EmptyGraph, Graph3}

RECURSIVE PositionsOf(_)
(* the function from each graph of gs to its calculate_positions *)
PositionsOf(gs) ==
    IF gs = {}
    THEN << >>
    ELSE LET g == CHOOSE h \in gs : TRUE
         IN  (g :> calculate_positions(g)) @@ PositionsOf(gs \ {g})

(* calculate_positions of each graph, evaluated once *)
LayoutTable == PositionsOf(SampleGraphs)

(* pointer positions of the host: on node a of Graph3, on node b, on no node *)
Points == {<<524, 300>>, <<338, 423>>, <<120, 60>>}

(* pinch deltas *)
PinchDeltas == {Frac(-2, 1), Frac(-1, 2), R(0), Frac(1, 2), Frac(5, 2)}

(* wheel deltas (x, y) *)
WheelDeltas == {<<50, -20>>}

----------------------------------------------------------------------------
(* State.                                                                  *)

VARIABLES
    workspace_graph,    \* WorkspaceLayout.workspace_graph
    zoom,               \* ViewState.zoom
    translation_x,      \* ViewState.translation_x
    translation_y,      \* ViewState.translation_y
    drag_started,       \* ViewState.drag_started
    drag_start_x,       \* ViewState.drag_start_x
    drag_start_y,       \* ViewState.drag_start_y
    mouse_position_x,   \* ViewState.mouse_position_x
    mouse_position_y,   \* ViewState.mouse_position_y
    selected_files,     \* SelectionState.selected_files
    hovered_file,       \* SelectionState.hovered_file (None or a file name)
    files,              \* CanvaState.files: the screen boxes of the last draw
    opened_files,       \* Editor.opened_files
    event,              \* history: the event handled last, with its inputs
    drag_origin,        \* history: the view at the pointer-down of the current drag
    steps,              \* history: number of events handled
    filesystem,         \* the files of the project, as the build reads them
    typescript_files,   \* feed: the discovered files
    file_to_node,       \* feed: the map from canonical path to NodeIndex
    pc,                 \* feed: the position in the function
    file_index,         \* feed: the position in the loop over typescript_files
    feed_log,           \* history: what the second pass did for each file
    layout_work,        \* history: the layouts made and iterations run by the last draw
    force_layout,       \* calculate_positions: the ForceDirectedLayout of the call in progress
    layout_pc,          \* calculate_positions: the position in the function
    layout_results,     \* history: the lists returned by the calls completed
    invocations         \* history: number of calls of calculate_positions started

view_vars == <<zoom, translation_x, translation_y, drag_started, drag_start_x,
               drag_start_y, mouse_position_x, mouse_position_y>>

selection_vars == <<selected_files, hovered_file>>

feed_vars == <<filesystem, typescript_files, file_to_node, pc, file_index, feed_log>>

layout_vars == <<force_layout, layout_pc, layout_results, invocations>>

ui_vars == <<zoom, translation_x, translation_y, drag_started, drag_start_x,
             drag_start_y, mouse_position_x, mouse_position_y, selected_files,
             hovered_file, files, opened_files, event, drag_origin, steps,
             layout_work>>

vars == <<workspace_graph, zoom, translation_x, translation_y, drag_started,
          drag_start_x, drag_start_y, mouse_position_x, mouse_position_y,
          selected_files, hovered_file, files, opened_files, event,
          drag_origin, steps, filesystem, typescript_files, file_to_node, pc,
          file_index, feed_log, layout_work, force_layout, layout_pc,
          layout_results, invocations>>

NoEvent == [type |-> "none", x |-> 0, y |-> 0, delta |-> R(0), opened |-> None]

Ev(type, x, y, delta, opened) ==
    [type |-> type, x |-> x, y |-> y, delta |-> delta, opened |-> opened]

(* no draw yet *)
NoWork == [layouts |-> 0, iterations |-> 0]

NoDrag == [active |-> FALSE, tx |-> R(0), ty |-> R(0), px |-> R(0), py |-> R(0),
           moves |-> 0]

(* the build has returned: nothing of it is in progress *)
FeedIdle ==
    /\ filesystem = NoProject
    /\ typescript_files = << >>
    /\ file_to_node = << >>
    /\ pc = "done"
    /\ file_index = 0
    /\ feed_log = << >>

NoLayout == [positions |-> << >>, width |-> 0, height |-> 0, k |-> 0,
             temperature |-> 0, iterations_done |-> 0]

(* no call of calculate_positions is being followed step by step *)
LayoutIdle ==
    /\ force_layout = NoLayout
    /\ layout_pc = "idle"
    /\ layout_results = << >>
    /\ invocations = 0

(* ViewState::new, SelectionState::new, CanvaState::new, Editor::new *)
InitView ==
    /\ zoom = R(1)
    /\ translation_x = R(0)
    /\ translation_y = R(0)
    /\ drag_started = FALSE
    /\ drag_start_x = R(0)
    /\ drag_start_y = R(0)
    /\ mouse_position_x = R(0)
    /\ mouse_position_y = R(0)
    /\ selected_files = {}
    /\ hovered_file = None
    /\ files = << >>
    /\ opened_files = << >>
    /\ event = NoEvent
    /\ drag_origin = NoDrag
    /\ steps = 0
    /\ layout_work = NoWork

(* WorkspaceLayout::new on a graph already built *)
Init ==
    /\ workspace_graph \in SampleGraphs
    /\ FeedIdle
    /\ LayoutIdle
    /\ InitView

----------------------------------------------------------------------------
(* view_state.rs                                                           *)

(* mouse_drag without the early return on a drag that has not started *)
MouseDragUnguarded(current_x, current_y) ==
    /\ translation_x' = RAdd(translation_x, RSub(current_x, drag_start_x))
    /\ translation_y' = RAdd(translation_y, RSub(current_y, drag_start_y))
    /\ drag_start_x' = current_x
    /\ drag_start_y' = current_y

(* mouse_drag that keeps the position of the pointer-down as reference *)
MouseDragKeepStart(current_x, current_y) ==
    IF ~drag_started
    THEN UNCHANGED <<translation_x, translation_y, drag_start_x, drag_start_y>>
    ELSE /\ translation_x' = RAdd(translation_x, RSub(current_x, drag_start_x))
         /\ translation_y' = RAdd(translation_y, RSub(current_y, drag_start_y))
         /\ UNCHANGED <<drag_start_x, drag_start_y>>

(* WorkspaceLayout::mouse_drag *)
mouse_drag(current_x, current_y) ==
    IF ~drag_started
    THEN UNCHANGED <<translation_x, translation_y, drag_start_x, drag_start_y>>
    ELSE LET delta_x == RSub(current_x, drag_start_x)
             delta_y == RSub(current_y, drag_start_y)
         IN  /\ translation_x' = RAdd(translation_x, delta_x)
             /\ translation_y' = RAdd(translation_y, delta_y)
             /\ drag_start_x' = current_x
             /\ drag_start_y' = current_y

(* WorkspaceLayout::track_mouse_position *)
track_mouse_position(x, y) ==
    /\ mouse_position_x' = x
    /\ mouse_position_y' = y
    /\ mouse_drag(x, y)
    /\ UNCHANGED <<zoom, drag_started>>

(* WorkspaceLayout::start_mouse_drag *)
start_mouse_drag ==
    /\ drag_started' = TRUE
    /\ drag_start_x' = mouse_position_x
    /\ drag_start_y' = mouse_position_y
    /\ UNCHANGED <<zoom, translation_x, translation_y, mouse_position_x,
                   mouse_position_y>>

(* WorkspaceLayout::end_mouse_drag *)
end_mouse_drag ==
    /\ drag_started' = FALSE
    /\ UNCHANGED <<zoom, translation_x, translation_y, drag_start_x,
                   drag_start_y, mouse_position_x, mouse_position_y>>

(* the requested zoom without the lower clamp *)
NewZoomUpperOnly(old_zoom, factor) == RMin(RAdd(old_zoom, factor), ZoomMax)

(* the requested zoom without the upper clamp *)
NewZoomLowerOnly(old_zoom, factor) == RMax(RAdd(old_zoom, factor), ZoomMin)

(* the zoom requested by WorkspaceLayout::zoom *)
NewZoom(old_zoom, factor) == Clamp(RAdd(old_zoom, factor), ZoomMin, ZoomMax)

(* a translation scaled about the origin instead of the mouse *)
NewTranslationAboutOrigin(mouse, old_t, old_zoom, new_zoom) ==
    RMul(RDiv(old_t, old_zoom), new_zoom)

(* the translation that keeps the world point under the mouse *)
NewTranslation(mouse, old_t, old_zoom, new_zoom) ==
    LET world == RDiv(RSub(mouse, old_t), old_zoom)
    IN  RSub(mouse, RMul(world, new_zoom))

(* a zoom without the early return, which anchors the view with the zoom *)
(* asked for instead of the clamped one                                   *)
ZoomAnchoredOnRequest(factor) ==
    LET old_zoom == zoom
        new_zoom == NewZoom(old_zoom, factor)
        asked    == RAdd(old_zoom, factor)
    IN  /\ zoom' = new_zoom
        /\ translation_x' =
               NewTranslation(mouse_position_x, translation_x, old_zoom, asked)
        /\ translation_y' =
               NewTranslation(mouse_position_y, translation_y, old_zoom, asked)
        /\ UNCHANGED <<drag_started, drag_start_x, drag_start_y,
                       mouse_position_x, mouse_position_y>>

(* WorkspaceLayout::zoom *)
zoom_(factor) ==
    LET old_zoom == zoom
        new_zoom == NewZoom(old_zoom, factor)
    IN  /\ IF old_zoom = new_zoom
           THEN UNCHANGED <<zoom, translation_x, translation_y>>
           ELSE /\ zoom' = new_zoom
                /\ translation_x' =
                       NewTranslation(mouse_position_x, translation_x, old_zoom, new_zoom)
                /\ translation_y' =
                       NewTranslation(mouse_position_y, translation_y, old_zoom, new_zoom)
        /\ UNCHANGED <<drag_started, drag_start_x, drag_start_y,
                       mouse_position_x, mouse_position_y>>

(* WorkspaceLayout::move_ *)
move_(dx, dy) ==
    /\ translation_x' = RAdd(translation_x, dx)
    /\ translation_y' = RAdd(translation_y, dy)
    /\ UNCHANGED <<zoom, drag_started, drag_start_x, drag_start_y,
                   mouse_position_x, mouse_position_y>>

----------------------------------------------------------------------------
(* selection_state.rs, editor.rs, draw.rs                                  *)

(* the closure of get_file_at_position: the box (fx, fy, fw, fh) holds (x, y) *)
BoxContains(box, x, y) ==
    /\ RLe(box[1], x) /\ RLe(x, box[3])
    /\ RLe(box[2], y) /\ RLe(y, box[4])

(* a hit-test returning the last box holding the point *)
GetFileAtPositionLast(fs, x, y) ==
    LET hits == {i \in 1..Len(fs) : BoxContains(fs[i].box, x, y)}
    IN  IF hits = {}
        THEN None
        ELSE fs[CHOOSE i \in hits : \A j \in hits : i >= j].file

(* WorkspaceLayout::get_file_at_position: find_map over the stored boxes *)
get_file_at_position(fs, x, y) ==
    LET hits == {i \in 1..Len(fs) : BoxContains(fs[i].box, x, y)}
    IN  IF hits = {}
        THEN None
        ELSE fs[CHOOSE i \in hits : \A j \in hits : i <= j].file

(* the hover-free variant: a pointer-move keeps a hover it already has *)
TrackHoveredFileSticky(x, y) ==
    hovered_file' = IF hovered_file # None
                    THEN hovered_file
                    ELSE get_file_at_position(files, x, y)

(* WorkspaceLayout::track_hovered_file *)
track_hovered_file(x, y) ==
    hovered_file' = get_file_at_position(files, x, y)

(* a click that keeps the selection when nothing is hovered *)
SelectKeepWhenNoHover ==
    IF hovered_file # None
    THEN selected_files' = {hovered_file}
    ELSE selected_files' = selected_files

(* WorkspaceLayout::select_file_hovered_file *)
select_file_hovered_file ==
    IF hovered_file # None
    THEN selected_files' = {hovered_file}
    ELSE selected_files' = {}

(* a multi-select that adds the hovered file and never removes one *)
MultiselectAddOnly(selected, hovered) ==
    IF hovered # None THEN selected \cup {hovered} ELSE selected

(* WorkspaceLayout::multiselect_files_hovered_file: the selected files it *)
(* leaves, from the selected files and the hovered file it finds          *)
multiselect_files_hovered_file(selected, hovered) ==
    IF hovered # None
    THEN IF hovered \in selected
         THEN selected \ {hovered}
         ELSE selected \cup {hovered}
    ELSE selected

(* an open_file that appends to the opened files *)
OpenFileAppend(file_name) == opened_files' = Append(opened_files, file_name)

(* an open_file that keeps a file already opened *)
OpenFileKeepFirst(file_name) ==
    opened_files' = IF opened_files = << >> THEN <<file_name>> ELSE opened_files

(* Editor::open_file *)
open_file(file_name) == opened_files' = <<file_name>>

(* Editor::get_opened_file *)
get_opened_file == IF opened_files = << >> THEN None ELSE Head(opened_files)

(* the screen box draw stores for a node at layout position pos *)
ScreenBox(pos, z, tx, ty) ==
    LET x == RAdd(RMul(Frac(pos.x, PosScale), z), tx)
        y == RAdd(RMul(Frac(pos.y, PosScale), z), ty)
        half == RDiv(RMul(R(NodeSize), z), R(2))
    IN  <<RSub(x, half), RSub(y, half), RAdd(x, half), RAdd(y, half)>>

(* the box list WorkspaceLayout::draw builds from the positions *)
DrawnFiles(positions, z, tx, ty) ==
    [i \in 1..Len(positions) |->
        [file |-> positions[i].file,
         box  |-> ScreenBox(positions[i].position, z, tx, ty)]]

(* WorkspaceLayout::draw followed by CanvaState::set_files *)
draw ==
    /\ files' = DrawnFiles(LayoutTable[workspace_graph].result, zoom, translation_x,
                         translation_y)
    /\ layout_work' = [layouts    |-> LayoutTable[workspace_graph].layouts,
                       iterations |-> LayoutTable[workspace_graph].iterations]

----------------------------------------------------------------------------
(* view.rs: the event handlers.                                            *)

(* the handler position is the position the host delivers the event at;   *)
(* the PointerDown handler does not read it                                *)
PointerDown(p) ==
    /\ steps < MaxSteps
    /\ start_mouse_drag
    /\ event' = Ev("PointerDown", p[1], p[2], R(0), None)
    /\ drag_origin' = [active |-> TRUE, tx |-> translation_x, ty |-> translation_y,
                       px |-> drag_start_x', py |-> drag_start_y', moves |-> 0]
    /\ steps' = steps + 1
    /\ UNCHANGED <<feed_vars, layout_vars, layout_work, workspace_graph, selected_files, hovered_file, files, opened_files>>

PointerUp ==
    /\ steps < MaxSteps
    /\ end_mouse_drag
    /\ event' = Ev("PointerUp", 0, 0, R(0), None)
    /\ drag_origin' = NoDrag
    /\ steps' = steps + 1
    /\ UNCHANGED <<feed_vars, layout_vars, layout_work, workspace_graph, selected_files, hovered_file, files, opened_files>>

(* a pointer-move handler that hit-tests the boxes of the view as it is,  *)
(* not the boxes the last draw stored                                     *)
PointerMoveOnFreshBoxes(p) ==
    /\ steps < MaxSteps
    /\ track_mouse_position(R(p[1]), R(p[2]))
    /\ hovered_file' =
           get_file_at_position(
               DrawnFiles(LayoutTable[workspace_graph].result, zoom, translation_x,
                          translation_y), R(p[1]), R(p[2]))
    /\ event' = Ev("PointerMove", p[1], p[2], R(0), None)
    /\ drag_origin' = IF drag_origin.active
                      THEN [drag_origin EXCEPT !.moves = @ + 1]
                      ELSE drag_origin
    /\ steps' = steps + 1
    /\ UNCHANGED <<feed_vars, layout_vars, layout_work, workspace_graph, selected_files, files, opened_files>>

PointerMove(p) ==
    /\ steps < MaxSteps
    /\ track_mouse_position(R(p[1]), R(p[2]))
    /\ track_hovered_file(R(p[1]), R(p[2]))
    /\ event' = Ev("PointerMove", p[1], p[2], R(0), None)
    /\ drag_origin' = IF drag_origin.active
                      THEN [drag_origin EXCEPT !.moves = @ + 1]
                      ELSE drag_origin
    /\ steps' = steps + 1
    /\ UNCHANGED <<feed_vars, layout_vars, layout_work, workspace_graph, selected_files, files, opened_files>>

PinchGesture(delta) ==
    /\ steps < MaxSteps
    /\ zoom_(delta)
    /\ IF zoom' = PinchOpenZoom /\ RLt(R(0), delta) /\ hovered_file # None
       THEN /\ open_file(hovered_file)
            /\ event' = Ev("PinchGesture", 0, 0, delta, hovered_file)
       ELSE /\ UNCHANGED opened_files
            /\ event' = Ev("PinchGesture", 0, 0, delta, None)
    /\ drag_origin' = NoDrag
    /\ steps' = steps + 1
    /\ UNCHANGED <<feed_vars, layout_vars, layout_work, workspace_graph, selected_files, hovered_file, files>>

PointerWheel(d) ==
    /\ steps < MaxSteps
    /\ move_(R(d[1]), R(d[2]))
    /\ event' = Ev("PointerWheel", d[1], d[2], R(0), None)
    /\ drag_origin' = NoDrag
    /\ steps' = steps + 1
    /\ UNCHANGED <<feed_vars, layout_vars, layout_work, workspace_graph, selected_files, hovered_file, files, opened_files>>

Click ==
    /\ steps < MaxSteps
    /\ select_file_hovered_file
    /\ event' = Ev("Click", 0, 0, R(0), None)
    /\ drag_origin' = NoDrag
    /\ steps' = steps + 1
    /\ UNCHANGED <<feed_vars, layout_vars, layout_work, workspace_graph, view_vars, hovered_file, files, opened_files>>

DoubleClick ==
    /\ steps < MaxSteps
    /\ IF hovered_file # None
       THEN /\ open_file(hovered_file)
            /\ event' = Ev("DoubleClick", 0, 0, R(0), hovered_file)
       ELSE /\ UNCHANGED opened_files
            /\ event' = Ev("DoubleClick", 0, 0, R(0), None)
    /\ drag_origin' = NoDrag
    /\ steps' = steps + 1
    /\ UNCHANGED <<feed_vars, layout_vars, layout_work, workspace_graph, view_vars, selected_files, hovered_file, files>>

(* a call of multiselect_files_hovered_file by the host; no handler of    *)
(* view.rs makes it                                                       *)
MultiSelect ==
    /\ steps < MaxSteps
    /\ selected_files' = multiselect_files_hovered_file(selected_files, hovered_file)
    /\ event' = Ev("MultiSelect", 0, 0, R(0), None)
    /\ drag_origin' = NoDrag
    /\ steps' = steps + 1
    /\ UNCHANGED <<feed_vars, layout_vars, layout_work, workspace_graph, view_vars, hovered_file, files, opened_files>>

(* the canvas paint callback *)
Draw ==
    /\ steps < MaxSteps
    /\ draw
    /\ event' = Ev("Draw", 0, 0, R(0), None)
    /\ steps' = steps + 1
    /\ UNCHANGED <<feed_vars, layout_vars, workspace_graph, view_vars, selected_files, hovered_file,
                   opened_files, drag_origin>>

Next ==
    \/ \E p \in Points : PointerDown(p)
    \/ PointerUp
    \/ \E p \in Points : PointerMove(p)
    \/ \E delta \in PinchDeltas : PinchGesture(delta)
    \/ \E d \in WheelDeltas : PointerWheel(d)
    \/ Click
    \/ DoubleClick
    \/ Draw

Spec == Init /\ [][Next]_vars

(* the events of Next and the calls of multiselect_files_hovered_file *)
NextSelect ==
    \/ Next
    \/ MultiSelect

SpecSelect == Init /\ [][NextSelect]_vars

----------------------------------------------------------------------------
(* feed_workspace_graph_with_ts_project, step by step: the scan, one step  *)
(* per file of the first loop, one per file of the second loop, the        *)
(* return.  The graph is the new graph of app_view.                        *)

(* history: what the second pass did for the file *)
LogEntry(fs, file_path, edges_before, edges_after) ==
    LET readable == ~ReadFails(fs, file_path)
        specifiers == IF readable
                      THEN visit_program(Parsed(fs, file_path).program)
                      ELSE << >>
    IN  [file       |-> file_path,
         ok         |-> parse_typescript_file(fs, file_path).ok,
         errors     |-> readable /\ Parsed(fs, file_path).errors,
         specifiers |-> specifiers,
         resolved   |-> [i \in 1..Len(specifiers) |->
                            resolve_import_path(fs, parent(file_path), specifiers[i])],
         added      |-> edges_after - edges_before]

FindFiles ==
    /\ pc = "start"
    /\ typescript_files' = find_typescript_files(filesystem, ProjectPath)
    /\ pc' = "pass1"
    /\ file_index' = 1
    /\ UNCHANGED <<workspace_graph, filesystem, file_to_node, feed_log, ui_vars, layout_vars>>

Pass1Step ==
    /\ pc = "pass1"
    /\ file_index <= Len(typescript_files)
    /\ workspace_graph' = Pass1Graph(workspace_graph, filesystem, typescript_files[file_index])
    /\ file_to_node' = Pass1Map(file_to_node, workspace_graph, filesystem,
                                typescript_files[file_index])
    /\ file_index' = file_index + 1
    /\ UNCHANGED <<filesystem, typescript_files, pc, feed_log, ui_vars, layout_vars>>

Pass1End ==
    /\ pc = "pass1"
    /\ file_index > Len(typescript_files)
    /\ pc' = "pass2"
    /\ file_index' = 1
    /\ UNCHANGED <<workspace_graph, filesystem, typescript_files, file_to_node, feed_log, ui_vars, layout_vars>>

Pass2Step ==
    /\ pc = "pass2"
    /\ file_index <= Len(typescript_files)
    /\ workspace_graph' = Pass2Graph(workspace_graph, file_to_node, filesystem,
                                     typescript_files[file_index])
    /\ feed_log' = Append(feed_log,
                          LogEntry(filesystem, typescript_files[file_index],
                                   Len(workspace_graph.edges),
                                   Len(workspace_graph'.edges)))
    /\ file_index' = file_index + 1
    /\ UNCHANGED <<filesystem, typescript_files, file_to_node, pc, ui_vars, layout_vars>>

(* Ok(()) *)
Return ==
    /\ pc = "pass2"
    /\ file_index > Len(typescript_files)
    /\ pc' = "done"
    /\ UNCHANGED <<workspace_graph, filesystem, typescript_files, file_to_node, file_index,
                   feed_log, ui_vars, layout_vars>>

NextFeed ==
    \/ FindFiles
    \/ Pass1Step
    \/ Pass1End
    \/ Pass2Step
    \/ Return

(* WorkspaceGraph::new, the view state of a layout not yet shown *)
InitFeedOn(projects) ==
    /\ workspace_graph = EmptyGraph
    /\ filesystem \in projects
    /\ typescript_files = << >>
    /\ file_to_node = << >>
    /\ pc = "start"
    /\ file_index = 0
    /\ feed_log = << >>
    /\ LayoutIdle
    /\ InitView

InitFeed == InitFeedOn(Projects)

SpecFeed == InitFeed /\ [][NextFeed]_vars

----------------------------------------------------------------------------
(* The build while another process changes the project: a regular file is  *)
(* replaced by a symbolic link to another regular file.                    *)

(* number of links another process makes during a build *)
MaxLinks == 1

(* /p/a.ts importing "./b", /p/b.ts, /p/c.ts *)
RaceProjects ==
    {[files  |-> {PathA, PathB, PathC},
      links  |-> {},
      source |-> (PathA :> Source(TRUE, FALSE, <<ImportDeclaration(specifier)>>))
                 @@ (PathB :> EmptySource) @@ (PathC :> EmptySource)] :
        specifier \in {SpecB, SpecC}}

ReplaceByLink(path, target) ==
    /\ pc # "done"
    /\ Cardinality(filesystem.links) < MaxLinks
    /\ path \in filesystem.files
    /\ target \in filesystem.files \ {path}
    /\ filesystem' = [filesystem EXCEPT !.files = @ \ {path}, !.links = @ \cup {<<path, target>>}]
    /\ UNCHANGED <<workspace_graph, typescript_files, file_to_node, pc, file_index,
                   feed_log, ui_vars, layout_vars>>

NextFeedRace ==
    \/ NextFeed
    \/ \E path \in filesystem.files, target \in filesystem.files : ReplaceByLink(path, target)

InitFeedRace == InitFeedOn(RaceProjects)

SpecFeedRace == InitFeedRace /\ [][NextFeedRace]_vars

----------------------------------------------------------------------------
(* Hit-testing as a function of the stored boxes: the runs start right     *)
(* after a draw of the three files of Graph3 at any placement of           *)
(* HitPositions (nodes of a dense graph lie as close as these), under any  *)
(* view of HitZooms and HitTranslations, HitSteps events before the end.   *)

HitSteps == 2

(* layout positions in 1/PosScale units: two nodes 16 apart, one far away *)
HitPositions == {Vec(5238, 3000), Vec(5398, 3100), Vec(3377, 4229)}

HitZooms == {R(1), ZoomMax}

HitTranslations == {R(0), R(-50)}

HitPlacements ==
    {[i \in 1..3 |-> [file |-> Graph3.nodes[i], position |-> ps[i]]] :
        ps \in [1..3 -> HitPositions]}

InitHit ==
    /\ workspace_graph = Graph3
    /\ zoom \in HitZooms
    /\ translation_x \in HitTranslations
    /\ translation_y = R(0)
    /\ drag_started = FALSE
    /\ drag_start_x = R(0)
    /\ drag_start_y = R(0)
    /\ mouse_position_x = R(0)
    /\ mouse_position_y = R(0)
    /\ selected_files = {}
    /\ hovered_file = None
    /\ \E placement \in HitPlacements :
           files = DrawnFiles(placement, zoom, translation_x, translation_y)
    /\ opened_files = << >>
    /\ event = NoEvent
    /\ drag_origin = NoDrag
    /\ steps = MaxSteps - HitSteps
    /\ layout_work = NoWork
    /\ FeedIdle
    /\ LayoutIdle

SpecHit == InitHit /\ [][Next]_vars

----------------------------------------------------------------------------
(* calculate_positions followed step by step: ForceDirectedLayout::new,    *)
(* the iterations of run one by one, then the result list.  The runs start *)
(* from the seeded circle, or from a layout a few iterations old whose     *)
(* nodes are where the clamp of a graph of many files puts them: on the    *)
(* border of the canvas, several of them on one corner (150 files without  *)
(* imports have nodes stacked on the four corners after 4 iterations).     *)

(* number of calls of calculate_positions in a row *)
MaxInvocations == 2

(* number of iterations a placed layout has behind it *)
PlacedAt == 4

(* one file *)
Graph1 == add_file(EmptyGraph, FileA)

(* two files, no import *)
Graph2 == add_file(add_file(EmptyGraph, FileA), FileB)

LayoutGraphs == {EmptyGraph, Graph1, Graph2, Graph3}

(* positions in 1/PosScale units: two nodes on a corner, a node on a       *)
(* corner with a neighbour, a node alone on the centre, three nodes on a   *)
(* corner and the border                                                   *)
PlacedPositions ==
    {<<Vec(0, 0), Vec(0, 0)>>,
     <<Vec(8000, 6000), Vec(8000, 6000)>>,
     <<Vec(0, 0), Vec(10, 10)>>,
     <<Vec(4000, 3000)>>,
     <<Vec(8000, 0), Vec(8000, 0), Vec(7990, 30)>>}

RECURSIVE Cooled(_, _)
(* the temperature t after n iterations *)
Cooled(t, n) == IF n = 0 THEN t ELSE Cooled((t * CoolingNum) \div CoolingDen, n - 1)

(* the layout of g after PlacedAt iterations, its nodes at the given positions *)
Placed(g, positions) ==
    [NewLayout(g, Width, Height) EXCEPT !.positions = positions,
                                        !.temperature = Cooled(@, PlacedAt),
                                        !.iterations_done = PlacedAt]

InitLayout ==
    /\ workspace_graph \in LayoutGraphs
    /\ \/ LayoutIdle
       \/ /\ \E positions \in PlacedPositions :
                 /\ Len(positions) = node_count(workspace_graph)
                 /\ force_layout = Placed(workspace_graph, positions)
          /\ layout_pc = "run"
          /\ layout_results = << >>
          /\ invocations = MaxInvocations
    /\ FeedIdle
    /\ InitView

(* a start of calculate_positions that keeps the positions of the last call *)
CalculatePositionsKeepingPositions ==
    /\ layout_pc = "idle"
    /\ invocations < MaxInvocations
    /\ invocations' = invocations + 1
    /\ IF node_count(workspace_graph) = 0
       THEN /\ layout_results' = Append(layout_results, << >>)
            /\ UNCHANGED <<force_layout, layout_pc>>
       ELSE /\ force_layout' =
                   IF force_layout = NoLayout
                   THEN NewLayout(workspace_graph, Width, Height)
                   ELSE [NewLayout(workspace_graph, Width, Height) EXCEPT
                            !.positions = force_layout.positions]
            /\ layout_pc' = "run"
            /\ UNCHANGED layout_results
    /\ UNCHANGED <<workspace_graph, feed_vars, ui_vars>>

(* calculate_positions up to the call of run: the early return for a graph *)
(* without nodes, ForceDirectedLayout::new otherwise                       *)
CalculatePositionsStart ==
    /\ layout_pc = "idle"
    /\ invocations < MaxInvocations
    /\ invocations' = invocations + 1
    /\ IF node_count(workspace_graph) = 0
       THEN /\ layout_results' = Append(layout_results, << >>)
            /\ UNCHANGED <<force_layout, layout_pc>>
       ELSE /\ force_layout' = NewLayout(workspace_graph, Width, Height)
            /\ layout_pc' = "run"
            /\ UNCHANGED layout_results
    /\ UNCHANGED <<workspace_graph, feed_vars, ui_vars>>

(* one turn of the loop of run *)
RunIterate ==
    /\ layout_pc = "run"
    /\ force_layout.iterations_done < Iterations
    /\ \E order \in Orders(node_count(workspace_graph)) :
           force_layout' = iterate_in_order(force_layout, workspace_graph, order)
    /\ UNCHANGED <<layout_pc, layout_results, invocations>>
    /\ UNCHANGED <<workspace_graph, feed_vars, ui_vars>>

(* a calculate_positions that returns as soon as one iteration is made *)
CalculatePositionsReturnEarly ==
    /\ layout_pc = "run"
    /\ force_layout.iterations_done >= 1
    /\ layout_results' = Append(layout_results,
           PushPositions(workspace_graph, force_layout, node_count(workspace_graph)))
    /\ layout_pc' = "idle"
    /\ UNCHANGED <<force_layout, invocations>>
    /\ UNCHANGED <<workspace_graph, feed_vars, ui_vars>>

(* the end of the loop of run and the result list of calculate_positions;  *)
(* force_layout keeps the layout of the call, as history                   *)
CalculatePositionsReturn ==
    /\ layout_pc = "run"
    /\ force_layout.iterations_done = Iterations
    /\ layout_results' = Append(layout_results,
           PushPositions(workspace_graph, force_layout, node_count(workspace_graph)))
    /\ layout_pc' = "idle"
    /\ UNCHANGED <<force_layout, invocations>>
    /\ UNCHANGED <<workspace_graph, feed_vars, ui_vars>>

NextLayout ==
    \/ CalculatePositionsStart
    \/ RunIterate
    \/ CalculatePositionsReturn

SpecLayout == InitLayout /\ [][NextLayout]_vars

----------------------------------------------------------------------------
(* Properties.                                                             *)

(* the bounds of the zoom as the specification states them *)
StatedZoomMin == Frac(1, 10)

StatedZoomMax == Frac(10, 1)

(* C1, as stated: a zoom gesture with delta d in a state with zoom z sets  *)
(* the zoom to clamp(z + d, 0.1, 10.0).                                    *)
C1_ZoomClampedTo10 ==
    [][event'.type = "PinchGesture" =>
          zoom' = RMin(RMax(RAdd(zoom, event'.delta), StatedZoomMin), StatedZoomMax)]_vars

(* C1, amended: a zoom gesture with delta d in a state with zoom z sets    *)
(* the zoom to clamp(z + d, 0.1, 3.0).                                     *)
C1_ZoomClampedTo3 ==
    [][event'.type = "PinchGesture" =>
          LET requested == RAdd(zoom, event'.delta)
          IN  zoom' = IF RLt(requested, Frac(1, 10)) THEN Frac(1, 10)
                      ELSE IF RLt(Frac(3, 1), requested) THEN Frac(3, 1)
                      ELSE requested]_vars

(* a pinch whose request (3.5) exceeded the upper bound has been handled *)
C1_Witness ==
    /\ event.type = "PinchGesture"
    /\ event.delta = Frac(5, 2)
    /\ zoom = Frac(3, 1)

(* C2: in every state reachable from the initial viewport by pointer-down, *)
(* pointer-move, pointer-up, pinch, wheel, click and double-click events   *)
(* the zoom lies in [0.1, 10.0].                                           *)
C2_ZoomInRange == RLe(StatedZoomMin, zoom) /\ RLe(zoom, StatedZoomMax)

(* a pinch has driven the zoom below 1, down to the lower bound *)
C2_Witness ==
    /\ event.type = "PinchGesture"
    /\ event.delta = Frac(-2, 1)
    /\ zoom = StatedZoomMin

(* C3: over every zoom gesture the world point under the pointer,          *)
(* (m - t) / zoom, is the same before and after on both axes, also when    *)
(* the requested zoom is clamped.                                          *)
C3_WorldPointFixed ==
    [][event'.type = "PinchGesture" =>
          /\ RDiv(RSub(mouse_position_x, translation_x), zoom)
               = RDiv(RSub(mouse_position_x', translation_x'), zoom')
          /\ RDiv(RSub(mouse_position_y, translation_y), zoom)
               = RDiv(RSub(mouse_position_y', translation_y'), zoom')]_vars

(* a clamped zoom away from the origin has moved the translation *)
C3_Witness ==
    /\ event.type = "PinchGesture"
    /\ event.delta = Frac(5, 2)
    /\ zoom = ZoomMax
    /\ mouse_position_x # R(0)
    /\ translation_x # R(0)
    /\ translation_y # R(0)

(* C4: after a pointer-down that recorded position p0, followed by moves   *)
(* only, the translation is its value at the pointer-down plus (pn - p0),  *)
(* pn the position of the last move, which is the recorded position.       *)
C4_DragAccumulates ==
    drag_origin.active =>
        /\ translation_x =
               RAdd(drag_origin.tx, RSub(mouse_position_x, drag_origin.px))
        /\ translation_y =
               RAdd(drag_origin.ty, RSub(mouse_position_y, drag_origin.py))
        /\ drag_start_x = mouse_position_x
        /\ drag_start_y = mouse_position_y

(* a drag of three moves that has panned the view *)
C4_Witness ==
    /\ drag_origin.active
    /\ drag_origin.moves >= 3
    /\ translation_x # drag_origin.tx
    /\ event.type = "PointerMove"

(* C5: after a pointer-down delivered at position p the drag is active and *)
(* the recorded reference position of the next move is p.                  *)
C5_DownRecordsEventPosition ==
    event.type = "PointerDown" =>
        /\ drag_started
        /\ drag_start_x = R(event.x)
        /\ drag_start_y = R(event.y)

(* C6: pointer-up clears the drag flag, and a pointer-move while the flag  *)
(* is false changes nothing but the last pointer position and the hover.   *)
C6_UpEndsDrag ==
    [][/\ event'.type = "PointerUp" => ~drag_started'
       /\ (event'.type = "PointerMove" /\ ~drag_started) =>
             /\ UNCHANGED <<zoom, translation_x, translation_y, drag_started,
                            drag_start_x, drag_start_y, selected_files, files,
                            opened_files, workspace_graph>>
             /\ mouse_position_x' = R(event'.x)
             /\ mouse_position_y' = R(event'.y)]_vars

(* a move after a drag that ended: the reference of the ended drag stays *)
C6_Witness ==
    /\ event.type = "PointerMove"
    /\ ~drag_started
    /\ drag_start_x # R(0)
    /\ drag_start_x # mouse_position_x

(* a <= b for rationals, by comparing a - b with 0 *)
AtMost(a, b) == RSub(a, b).n <= 0

(* the point (x, y) lies in the closed rectangle box *)
InBox(box, x, y) ==
    /\ AtMost(box[1], x) /\ AtMost(x, box[3])
    /\ AtMost(box[2], y) /\ AtMost(y, box[4])

(* C7: a draw stores one square per node, of side 40 * zoom, centred at    *)
(* position * zoom + translation; the hit-test of a pointer position gives *)
(* the first node in list order whose box holds it, none when no box does. *)
C7_HitTest ==
    /\ event.type = "Draw" =>
          LET positions == LayoutTable[workspace_graph].result
          IN  /\ Len(files) = Len(positions)
              /\ \A i \in 1..Len(files) :
                    LET cx == RAdd(RMul(Frac(positions[i].position.x, PosScale), zoom),
                                   translation_x)
                        cy == RAdd(RMul(Frac(positions[i].position.y, PosScale), zoom),
                                   translation_y)
                        b  == files[i].box
                    IN  /\ files[i].file = positions[i].file
                        /\ RSub(b[3], b[1]) = RMul(R(40), zoom)
                        /\ RSub(b[4], b[2]) = RMul(R(40), zoom)
                        /\ RAdd(b[1], b[3]) = RMul(R(2), cx)
                        /\ RAdd(b[2], b[4]) = RMul(R(2), cy)
    /\ event.type = "PointerMove" =>
          LET x == R(event.x)
              y == R(event.y)
          IN  /\ (\A i \in 1..Len(files) : ~InBox(files[i].box, x, y))
                    => hovered_file = None
              /\ \A i \in 1..Len(files) :
                    (/\ InBox(files[i].box, x, y)
                     /\ \A j \in 1..(i - 1) : ~InBox(files[j].box, x, y))
                    => hovered_file = files[i].file

(* a pointer position held by the boxes of two nodes hovers the first *)
C7_Witness ==
    /\ event.type = "PointerMove"
    /\ \E i, j \in 1..Len(files) :
          /\ i < j
          /\ files[i].file # files[j].file
          /\ InBox(files[i].box, R(event.x), R(event.y))
          /\ InBox(files[j].box, R(event.x), R(event.y))
          /\ \A h \in 1..(i - 1) : ~InBox(files[h].box, R(event.x), R(event.y))
          /\ hovered_file = files[i].file

(* C8: a click sets the selection to the singleton of the hovered file,    *)
(* or to the empty set when nothing is hovered, whatever it was before.    *)
C8_ClickSelects ==
    [][event'.type = "Click" =>
          /\ hovered_file # None => selected_files' = {hovered_file}
          /\ hovered_file = None => selected_files' = {}]_vars

(* a click on a hovered file made it the selection *)
C8_Witness ==
    /\ event.type = "Click"
    /\ hovered_file # None
    /\ selected_files = {hovered_file}

(* C9: a double-click with a hovered file opens exactly that file in the   *)
(* editor; with nothing hovered it opens nothing and the editor's opened   *)
(* file stays as it was.                                                   *)
C9_DoubleClickOpens ==
    [][event'.type = "DoubleClick" =>
          /\ hovered_file # None =>
                /\ event'.opened = hovered_file
                /\ opened_files' = <<hovered_file>>
          /\ hovered_file = None =>
                /\ event'.opened = None
                /\ opened_files' = opened_files]_vars

(* a double-click on a hovered file opened it *)
C9_Witness ==
    /\ event.type = "DoubleClick"
    /\ hovered_file # None
    /\ event.opened = hovered_file
    /\ opened_files = <<hovered_file>>

(* C10: a pinch with positive delta that brings the zoom to the maximum    *)
(* while a file is hovered signals open for the hovered file.              *)
C10_PinchAtMaxOpens ==
    [][(/\ event'.type = "PinchGesture"
        /\ RLt(R(0), event'.delta)
        /\ zoom' = ZoomMax
        /\ hovered_file # None)
       => (event'.opened = hovered_file /\ opened_files' = <<hovered_file>>)]_vars


(* C11: the selected files change only on a click or a double-click:       *)
(* pointer-down, pointer-move, pointer-up, pinch, wheel and redraw leave   *)
(* them as they were; every pointer-move recomputes the hover from the     *)
(* pointer position, whatever was hovered before.                          *)
C11_SelectionFrame ==
    [][/\ event'.type \notin {"Click", "DoubleClick"}
             => selected_files' = selected_files
       /\ event'.type = "PointerMove"
             => LET x == R(event'.x)
                    y == R(event'.y)
                    holding == {i \in 1..Len(files) : InBox(files[i].box, x, y)}
                IN  /\ (holding = {}) <=> (hovered_file' = None)
                    /\ holding # {}
                          => \E i \in holding : hovered_file' = files[i].file]_vars

(* a pointer-move off a selected, hovered file changed the hover and kept  *)
(* the selection                                                           *)
C11_Witness ==
    /\ event.type = "PointerMove"
    /\ selected_files # {}
    /\ hovered_file \notin selected_files

----------------------------------------------------------------------------
(* Properties of the build.                                                *)

(* the nodes of g carrying the file name path *)
NodesNamed(g, path) == {n \in 1..Len(g.nodes) : g.nodes[n] = path}

(* the number of edge ends at node n (a self loop has two) *)
Degree(g, n) ==
    Cardinality({k \in 1..Len(g.edges) : g.edges[k][1] = n})
    + Cardinality({k \in 1..Len(g.edges) : g.edges[k][2] = n})

(* the paths the specification lists for the base r, in its order *)
StatedCandidates(r) ==
    << with_extension(r, Ts), with_extension(r, Tsx),
       with_extension(r, Js), with_extension(r, Jsx),
       r \o <<FileName(Index, Ts)>>, r \o <<FileName(Index, Tsx)>>,
       r \o <<FileName(Index, Js)>>, r \o <<FileName(Index, Jsx)>> >>

(* the path is a file or a directory of the project *)
Present(path) == path \in filesystem.files \/ IsDir(filesystem, path)

(* the program of the file of a log entry *)
ProgramOf(entry) == filesystem.source[entry.file].program

(* C12: after the first pass every canonical path of the map is the name   *)
(* of exactly one node, also when several discovered paths have the same   *)
(* canonical path: the first pass adds no second node for it.              *)
C12_OneNodePerPath ==
    pc \in {"pass2", "done"} =>
        /\ \A path \in DOMAIN file_to_node :
              Cardinality(NodesNamed(workspace_graph, path)) = 1
        /\ \A n \in 1..node_count(workspace_graph) :
              workspace_graph.nodes[n] \in DOMAIN file_to_node

(* the edges the second pass is to add for the file of a log entry: one    *)
(* for each extracted specifier resolved to the name of a node, in order   *)
EdgesFor(entry, g) ==
    LET hits == SelectSeq([i \in 1..Len(entry.specifiers) |-> i],
                          LAMBDA i : NodesNamed(g, entry.resolved[i]) # {})
    IN  [k \in 1..Len(hits) |->
            <<CHOOSE n \in NodesNamed(g, entry.file) : TRUE,
              CHOOSE n \in NodesNamed(g, entry.resolved[hits[k]]) : TRUE>>]

(* C13: the second pass adds, for each file, an edge from its node to the  *)
(* resolved node exactly for the extracted specifiers that resolve to a    *)
(* path of the first-pass map, the file itself included; bare specifiers,  *)
(* missing or undiscovered targets and unreadable files add no edge; the   *)
(* build goes on to the next file and returns.                             *)
C13_EdgesForResolved ==
    [][(pc = "pass2" /\ file_index' = file_index + 1) =>
          LET entry == feed_log'[Len(feed_log')]
              added == SubSeq(workspace_graph'.edges,
                              Len(workspace_graph.edges) + 1,
                              Len(workspace_graph'.edges))
          IN  /\ entry.file = typescript_files[file_index]
              /\ workspace_graph'.nodes = workspace_graph.nodes
              /\ SubSeq(workspace_graph'.edges, 1, Len(workspace_graph.edges))
                    = workspace_graph.edges
              /\ added = EdgesFor(entry, workspace_graph)
              /\ ~filesystem.source[entry.file].readable => added = << >>
              /\ pc' \in {"pass2", "done"}]_vars

(* a file importing itself got its self loop *)
C13_Witness ==
    /\ pc = "done"
    /\ \E k \in 1..Len(workspace_graph.edges) :
          workspace_graph.edges[k][1] = workspace_graph.edges[k][2]
    /\ \E k \in 1..Len(workspace_graph.edges) :
          workspace_graph.edges[k][1] # workspace_graph.edges[k][2]

(* one import statement of a listed form: static import, re-export,        *)
(* require("x"), require("x").default (the dynamic import is C18's)        *)
ListedImport(s) ==
    \/ s.kind \in {"ImportDeclaration", "ExportAllDeclaration"}
    \/ s.kind = "ExportNamedDeclaration" /\ s.has_source
    \/ /\ s.kind = "ExpressionStatement"
       /\ \/ RequireSpecifier(s.expression) # << >>
          \/ /\ s.expression.kind = "StaticMemberExpression"
             /\ RequireSpecifier(s.expression.object) # << >>

(* the specifier of a listed import statement *)
SpecifierOf(s) ==
    IF s.kind # "ExpressionStatement" THEN s.source
    ELSE IF s.expression.kind = "StaticMemberExpression"
    THEN s.expression.object.arguments[1].value
    ELSE s.expression.arguments[1].value

(* C14: a file whose program is import statements (static import,          *)
(* re-export, require("x"), require("x").default) yields exactly one       *)
(* specifier per statement, in order, and so one edge per resolvable       *)
(* statement: require("./x").default gives the specifier and the edges     *)
(* require("./x") gives.                                                   *)
C14_OneSpecifierPerImport ==
    \A e \in 1..Len(feed_log) :
        LET entry == feed_log[e]
            program == ProgramOf(entry)
        IN  (/\ entry.ok
             /\ ~entry.errors
             /\ \A i \in 1..Len(program) : ListedImport(program[i]))
            => /\ entry.specifiers = [i \in 1..Len(program) |-> SpecifierOf(program[i])]
               /\ entry.added =
                     Cardinality({i \in 1..Len(program) :
                        NodesNamed(workspace_graph,
                                   resolve_import_path(filesystem, parent(entry.file),
                                                       SpecifierOf(program[i]))) # {}})

(* the node of the file path, when there is exactly one *)
NodeOf(g, path) == CHOOSE n \in NodesNamed(g, path) : TRUE

(* C15: the build of the five files a, b, c, d, e with the resolvable      *)
(* imports a->b, b->c, b->d, a->e, b->e gives 5 nodes and 5 edges, with    *)
(* the degrees a=2, b=4, c=1, d=1, e=2.                                    *)
C15_FiveFiles ==
    (pc = "done" /\ filesystem = Project5) =>
        LET g == workspace_graph
        IN  /\ node_count(g) = 5
            /\ Len(g.edges) = 5
            /\ \A path \in Project5.files : Cardinality(NodesNamed(g, path)) = 1
            /\ Degree(g, NodeOf(g, PathA)) = 2
            /\ Degree(g, NodeOf(g, PathB)) = 4
            /\ Degree(g, NodeOf(g, PathC)) = 1
            /\ Degree(g, NodeOf(g, PathD)) = 1
            /\ Degree(g, NodeOf(g, PathE)) = 2

(* the build of the five files has returned, e linked to both a and b *)
C15_Witness ==
    /\ pc = "done"
    /\ filesystem = Project5
    /\ <<NodeOf(workspace_graph, PathA), NodeOf(workspace_graph, PathE)>>
          \in {workspace_graph.edges[k] : k \in 1..Len(workspace_graph.edges)}
    /\ <<NodeOf(workspace_graph, PathB), NodeOf(workspace_graph, PathE)>>
          \in {workspace_graph.edges[k] : k \in 1..Len(workspace_graph.edges)}

(* C16: a specifier whose first character is not '.' resolves to nothing,  *)
(* whatever files exist, and adds no edge.                                 *)
C16_BareUnresolved ==
    \A e \in 1..Len(feed_log) :
        LET entry == feed_log[e]
        IN  /\ \A i \in 1..Len(entry.specifiers) :
                  entry.specifiers[i][1][1] # "." => entry.resolved[i] = Unresolved
            /\ (\A i \in 1..Len(entry.specifiers) : entry.specifiers[i][1][1] # ".")
                  => entry.added = 0

(* the bare specifier "b" stayed unresolved although /p/b.ts exists *)
C16_Witness ==
    \E e \in 1..Len(feed_log) :
        /\ feed_log[e].specifiers = <<SpecBareB>>
        /\ feed_log[e].resolved = <<Unresolved>>
        /\ PathB \in filesystem.files
        /\ PathB \in DOMAIN file_to_node

C18_DynamicImport ==
    \A e \in 1..Len(feed_log) :
        LET entry == feed_log[e]
            program == ProgramOf(entry)
        IN  (/\ entry.ok
             /\ ~entry.errors
             /\ Len(program) = 1
             /\ program[1].kind = "ExpressionStatement"
             /\ program[1].expression.kind = "ImportExpression")
            => LET source == program[1].expression.source
               IN  IF source.kind = "StringLiteral"
                   THEN /\ entry.specifiers = <<source.value>>
                        /\ NodesNamed(workspace_graph, entry.resolved[1]) # {}
                              => entry.added = 1
                   ELSE entry.specifiers = << >>

C20_EmptyGraphLayout ==
    (event.type = "Draw" /\ node_count(workspace_graph) = 0) =>
        /\ files = << >>
        /\ layout_work.layouts = 0
        /\ layout_work.iterations = 0

(* a draw of the empty graph happened and stored no box *)
C20_Witness ==
    /\ event.type = "Draw"
    /\ workspace_graph = EmptyGraph
    /\ files = << >>
    /\ layout_work = NoWork

----------------------------------------------------------------------------
(* Properties of the layout run.                                           *)

(* the position lies on the canvas, borders included *)
OnCanvas(pos) ==
    /\ 0 <= pos.x /\ pos.x <= Width * PosScale
    /\ 0 <= pos.y /\ pos.y <= Height * PosScale

(* an iteration of the run has just been made *)
Iterated == force_layout'.iterations_done = force_layout.iterations_done + 1

(* C21: every node is on the canvas [0,800]x[0,600] when the layout is     *)
(* made and after every iteration, and so is every position returned.      *)
C21_PositionsOnCanvas ==
    /\ layout_pc = "run" =>
           \A a \in node_indices(workspace_graph) : OnCanvas(force_layout.positions[a])
    /\ \A r \in 1..Len(layout_results) :
           \A i \in 1..Len(layout_results[r]) : OnCanvas(layout_results[r][i].position)

(* an iteration has left a node on the left or the right border *)
C21_Witness ==
    /\ layout_pc = "run"
    /\ force_layout.iterations_done > PlacedAt
    /\ \E a \in node_indices(workspace_graph) :
           force_layout.positions[a].x \in {0, Width * PosScale}

(* C22: the layout is a function of the graph.  Whatever the order in      *)
(* which the integration loop visits the displacements map, an iteration   *)
(* gives the layout that visiting the nodes in index order gives, and the  *)
(* calls of calculate_positions on one graph all return the same list.     *)
C22_Deterministic ==
    [][/\ Iterated => force_layout' = iterate(force_layout, workspace_graph)
       /\ \A q, r \in 1..Len(layout_results') : layout_results'[q] = layout_results'[r]]_vars

(* two calls on a graph of several nodes have returned *)
C22_Witness ==
    /\ Len(layout_results) >= 2
    /\ node_count(workspace_graph) >= 2

(* C23: no step of a layout call changes the graph (nodes, file names,     *)
(* edges), and every call starts from the layout ForceDirectedLayout::new  *)
(* makes of the graph, whatever the calls before it left.                  *)
C23_GraphUntouched ==
    [][/\ workspace_graph' = workspace_graph
       /\ layout_pc = "idle" /\ layout_pc' = "run" =>
              force_layout' = NewLayout(workspace_graph, Width, Height)]_vars

(* a second call has started after a first one has moved the nodes *)
C23_Witness ==
    /\ invocations = 2
    /\ layout_pc = "run"
    /\ force_layout.iterations_done = 0
    /\ Len(layout_results) = 1
    /\ \E i \in 1..Len(layout_results[1]) :
           layout_results[1][i].position # force_layout.positions[i]

(* the repulsion node a receives from node b has the stated magnitude: the *)
(* components are rounded toward zero and the distance d down, so the      *)
(* magnitude is within force / d + 2 steps of the force                    *)
StatedRepulsion(l, a, b) ==
    LET d == distance(l.positions[a], l.positions[b])
        f == RepulsionPair(l, a, b)
        stated == IF d = 0 THEN 1000 * PosScale ELSE (l.k * l.k) \div d
        slack == IF d = 0 THEN 0 ELSE stated \div d + 2
    IN  /\ Abs(Hypot(f.x, f.y) - stated) <= slack
        /\ RepulsionPair(l, b, a) = Vec(-f.x, -f.y)

(* C24: in the repulsion step of an iteration every pair of distinct nodes *)
(* receives a repulsion of magnitude 1000 when the two nodes are on the    *)
(* same point and of magnitude k^2 / d when they are d > 0 apart, opposite *)
(* on the two nodes.                                                       *)
C24_CoincidentRepulsion ==
    layout_pc = "run" =>
        \A a, b \in node_indices(workspace_graph) :
            a # b => StatedRepulsion(force_layout, a, b)

(* the temperature in 1/PosScale steps, rounded up, and one step more for *)
(* the rounding of the unit vector of the displacement (its length is     *)
(* rounded down before the division)                                      *)
TemperatureSteps(l) ==
    (l.temperature + (TempScale \div PosScale) - 1) \div (TempScale \div PosScale) + 1

(* C25: in an iteration no node moves farther than the temperature the     *)
(* iteration started with (to the rounding of the position grid).          *)
C25_MoveWithinTemperature ==
    [][Iterated =>
          \A a \in node_indices(workspace_graph) :
              LET dx == force_layout'.positions[a].x - force_layout.positions[a].x
                  dy == force_layout'.positions[a].y - force_layout.positions[a].y
                  t  == TemperatureSteps(force_layout)
              IN  dx * dx + dy * dy <= t * t]_vars

(* an iteration has moved a node whose displacement was longer than the    *)
(* temperature: the node is off the seeded circle after the first turn     *)
C25_Witness ==
    /\ layout_pc = "run"
    /\ force_layout.iterations_done = 1
    /\ \E a \in node_indices(workspace_graph) :
           LET seed == NewLayout(workspace_graph, Width, Height)
           IN  /\ force_layout.positions[a] # seed.positions[a]
               /\ Hypot(Displacement(seed, workspace_graph, a).x,
                        Displacement(seed, workspace_graph, a).y) * (TempScale \div PosScale)
                      > seed.temperature

(* C26: a call on a graph with nodes starts at the temperature width / 10  *)
(* with 100 iterations to make; every step of its run is an iteration,     *)
(* which leaves one iteration less to make, multiplies the temperature by  *)
(* 0.95 (so lowers it) and returns nothing, or is the return of the list,  *)
(* made when no iteration is left: the call ends after exactly 100         *)
(* iterations.                                                             *)
C26_FixedIterations ==
    [][/\ layout_pc = "idle" /\ layout_pc' = "run" =>
             /\ force_layout'.temperature = (Width * TempScale) \div 10
             /\ force_layout'.iterations_done = 0
       /\ layout_pc = "run" =>
             \/ /\ Iterated
                /\ force_layout.iterations_done < 100
                /\ force_layout'.temperature =
                       (force_layout.temperature * CoolingNum) \div CoolingDen
                /\ force_layout'.temperature < force_layout.temperature
                /\ layout_results' = layout_results
                /\ layout_pc' = "run"
             \/ /\ force_layout.iterations_done = 100
                /\ force_layout' = force_layout
                /\ Len(layout_results') = Len(layout_results) + 1
                /\ layout_pc' = "idle"
       /\ layout_results' # layout_results /\ node_count(workspace_graph) > 0 =>
             layout_pc = "run" /\ force_layout.iterations_done = 100]_vars

(* a call from the seeded circle has made its 100 iterations and returned *)
C26_Witness ==
    /\ invocations = 1
    /\ layout_pc = "idle"
    /\ Len(layout_results) = 1
    /\ force_layout.iterations_done = 100
    /\ force_layout.temperature > 0

----------------------------------------------------------------------------
(* Properties of the hover, the zoom, the selection and the editor.        *)

(* the file of the first box of boxes holding (x, y), None without one *)
FirstHolding(boxes, x, y) ==
    IF \A i \in 1..Len(boxes) : ~InBox(boxes[i].box, x, y)
    THEN None
    ELSE boxes[CHOOSE i \in 1..Len(boxes) :
                   /\ InBox(boxes[i].box, x, y)
                   /\ \A j \in 1..(i - 1) : ~InBox(boxes[j].box, x, y)].file

(* C27: the box list is empty until the first draw and only a draw changes *)
(* it; a pointer-move decides the hover with the boxes the last draw       *)
(* stored, whatever the view has become since: none before the first draw. *)
C27_HoverUsesLastDraw ==
    /\ files = << >>
    /\ [][/\ event'.type # "Draw" => files' = files
          /\ event'.type = "PointerMove" =>
                /\ hovered_file' = FirstHolding(files, R(event'.x), R(event'.y))
                /\ files = << >> => hovered_file' = None]_vars

(* after a draw and a change of the view, a pointer-move hovers a file     *)
(* whose box in the new view does not hold the pointer                     *)
C27_Witness ==
    /\ event.type = "PointerMove"
    /\ hovered_file # None
    /\ FirstHolding(DrawnFiles(LayoutTable[workspace_graph].result, zoom,
                               translation_x, translation_y),
                    R(event.x), R(event.y)) = None

(* C28: a pinch whose zoom, delta added and clamped into [0.1, 3], is the  *)
(* zoom the view already has (the zoom is at a bound and the delta pushes  *)
(* outward, or the delta is 0) leaves the zoom and both translations as    *)
(* they were.                                                              *)
C28_ZoomNoOp ==
    [][(/\ event'.type = "PinchGesture"
        /\ RMin(RMax(RAdd(zoom, event'.delta), Frac(1, 10)), R(3)) = zoom)
       => /\ zoom' = zoom
          /\ translation_x' = translation_x
          /\ translation_y' = translation_y]_vars

(* a pinch of delta 0 at the upper bound, the pointer off the origin of    *)
(* the view, has left the view as it was                                   *)
C28_Witness ==
    /\ event.type = "PinchGesture"
    /\ event.delta = R(0)
    /\ zoom = R(3)
    /\ mouse_position_x # translation_x

(* C29: a multi-select with a hovered file puts the file in the selection  *)
(* when it was not in it and takes it out when it was, and leaves the      *)
(* other selected files as they were; a second multi-select with the same  *)
(* hovered file gives the first selection back; with nothing hovered the   *)
(* selection stays as it was.                                              *)
C29_MultiSelectToggles ==
    [][event'.type = "MultiSelect" =>
          /\ hovered_file = None => selected_files' = selected_files
          /\ hovered_file # None =>
                /\ (hovered_file \in selected_files') <=> (hovered_file \notin selected_files)
                /\ selected_files' \ {hovered_file} = selected_files \ {hovered_file}
          /\ multiselect_files_hovered_file(selected_files', hovered_file) = selected_files]_vars

(* a multi-select has added the hovered file to a selection of another file *)
C29_Witness ==
    /\ event.type = "MultiSelect"
    /\ hovered_file \in selected_files
    /\ selected_files # {hovered_file}

(* C30: the editor never holds more than one opened file; get_opened_file  *)
(* gives none before the first open_file, the file of the call after every *)
(* call of open_file, and what it gave before after any other event.       *)
C30_OneOpenedFile ==
    /\ get_opened_file = None
    /\ [][/\ Len(opened_files') <= 1
          /\ event'.opened # None => get_opened_file' = event'.opened
          /\ event'.opened = None => get_opened_file' = get_opened_file]_vars

(* the second file of the graph has been opened and the editor gives it *)
C30_Witness ==
    /\ event.opened = FileB
    /\ get_opened_file = FileB
    /\ Len(opened_files) = 1

====
